---------------------------- MODULE Spec2Model ----------------------------
(***************************************************************************)
(* A state-machine model of aliceVision::depthMap::Refine                  *)
(* (src/src/aliceVision/depthMap/Refine.cpp).                              *)
(*                                                                         *)
(* Every Refine engine owns its device buffers and one CUDA stream; the    *)
(* host code of refineRc pushes device operations on the stream, the       *)
(* device pops and runs them in FIFO order.  All engines share the         *)
(* DeviceCache singleton.  The device kernels (cuda_...), the buffer class *)
(* (CudaDeviceMemoryPitched), the DeviceCache and the ROI helpers are not  *)
(* part of the source files at hand: their models follow the design        *)
(* document of the repository.                                             *)
(***************************************************************************)
EXTENDS Integers, Sequences, FiniteSets, TLC

(***************************************************************************)
(* Bounds of the model.                                                    *)
(***************************************************************************)
\* coarse (SGM) pixels of a tile; the working-resolution tile has twice as many
NbCoarsePixels == 1
\* largest halfNbDepths a job is configured with
MaxHalfNbDepths == 1
\* largest number of entries the DeviceCache can be configured to hold
MaxCacheCapacity == 4
\* largest offset of the begin of a tile's ROI in the image
MaxRoiBegin == 2
\* significand bits of the model's floating-point similarity type
MantissaBits == 2
\* calls of refineRc on one engine
MaxCalls == 1
\* largest tile buffer width and height of a job
MaxBufferDim == 5

Engines == {1, 2}
Cams == {0, 1, 2, 3}
NoCam == -1

CoarsePixels == 1..NbCoarsePixels
Pixels == 1..(2 * NbCoarsePixels)

(***************************************************************************)
(* Integer helpers.                                                        *)
(***************************************************************************)
Max(a, b) == IF a >= b THEN a ELSE b

Abs(a) == IF a >= 0 THEN a ELSE -a

RECURSIVE Pow(_, _)
Pow(b, n) == IF n <= 0 THEN 1 ELSE b * Pow(b, n - 1)

SeqToSet(s) == {s[i] : i \in 1..Len(s)}

\* divideRoundUp(x, d) of mvsData/ROI.hpp: ceil(x / d) for x >= 0, d > 0
divideRoundUp(x, d) == (x + d - 1) \div d

(***************************************************************************)
(* The floating-point similarity type (TSimRefine): non-negative values    *)
(* with MantissaBits significand bits, rounded to nearest, ties to even.   *)
(***************************************************************************)
RECURSIVE Ulp(_)
Ulp(x) == IF x < Pow(2, MantissaBits) THEN 1 ELSE 2 * Ulp(x \div 2)

FRound(x) ==
    LET u == Ulp(x)
        q == x \div u
        r == x % u
    IN  IF 2 * r < u THEN q * u
        ELSE IF 2 * r > u THEN (q + 1) * u
        ELSE IF q % 2 = 0 THEN q * u
        ELSE (q + 1) * u

FAdd(a, b) == FRound(a + b)

(***************************************************************************)
(* Configuration: RefineParams and TileParams.                             *)
(***************************************************************************)
RefineParamsSet(fuse, opt, iters, normal, halfs, exports) ==
    { [ scale |-> 1, stepXY |-> 2, halfNbDepths |-> h,
        useRefineFuse |-> f, useColorOptimization |-> o, useNormalMap |-> n,
        optimizationNbIterations |-> it,
        exportIntermediateDepthSimMaps |-> x[1],
        exportIntermediateCrossVolumes |-> x[2],
        exportIntermediateVolume9pCsv |-> x[3] ] :
      f \in fuse, o \in opt, it \in iters, n \in normal, h \in halfs, x \in exports }

NoExport == <<FALSE, FALSE, FALSE>>
AllExports == <<TRUE, TRUE, TRUE>>

TileParamsSet(widths, heights) ==
    { [bufferWidth |-> w, bufferHeight |-> h] : w \in widths, h \in heights }

\* what the design document calls a valid configuration
ValidParams(rp) ==
    /\ rp.scale >= 1 /\ rp.stepXY >= 1
    /\ 2 * rp.halfNbDepths + 1 >= 1
    /\ rp.optimizationNbIterations >= 0

(***************************************************************************)
(* Device buffers (CudaDeviceMemoryPitched) of one engine.                 *)
(***************************************************************************)
Buffers == { "sgmDepthPixSizeMap", "refinedDepthSimMap", "optimizedDepthSimMap",
             "normalMap", "volumeRefineSim", "optImgVariance", "optTmpDepthMap" }

NotAllocated == <<0, 0, 0>>

\* a faulty variant of maxTileDim: the remainder instead of the quotient
Mutant_maxTileDim(bufferDim, rp) == bufferDim % (rp.scale * rp.stepXY)

\* maxTileWidth, maxTileHeight of the constructor
maxTileDim(bufferDim, rp) == divideRoundUp(bufferDim, rp.scale * rp.stepXY)

\* a faulty variant of depthSimMapDim: the dimensions are rounded down
Mutant_depthSimMapDim(tp, rp) ==
    <<tp.bufferWidth \div (rp.scale * rp.stepXY),
      tp.bufferHeight \div (rp.scale * rp.stepXY), 1>>

\* line 38
depthSimMapDim(tp, rp) ==
    <<maxTileDim(tp.bufferWidth, rp), maxTileDim(tp.bufferHeight, rp), 1>>

\* a faulty variant of nbDepthsToRefine: the central hypothesis is left out
Mutant_nbDepthsToRefine(rp) == rp.halfNbDepths * 2

\* line 50
nbDepthsToRefine(rp) == rp.halfNbDepths * 2 + 1

volDim(tp, rp) ==
    <<maxTileDim(tp.bufferWidth, rp), maxTileDim(tp.bufferHeight, rp),
      nbDepthsToRefine(rp)>>

\* the allocations of the constructor, in program order
AllocationPlan(tp, rp) ==
    <<"sgmDepthPixSizeMap", "refinedDepthSimMap", "optimizedDepthSimMap">>
    \o (IF rp.useNormalMap THEN <<"normalMap">> ELSE <<>>)
    \o <<"volumeRefineSim">>
    \o (IF rp.useColorOptimization THEN <<"optImgVariance", "optTmpDepthMap">> ELSE <<>>)

AllocationDim(b, tp, rp) ==
    IF b = "volumeRefineSim" THEN volDim(tp, rp) ELSE depthSimMapDim(tp, rp)

\* sizeof the element type of each buffer: float2, float3, TSimRefine, float
ElemSize(b) ==
    CASE b \in {"sgmDepthPixSizeMap", "refinedDepthSimMap", "optimizedDepthSimMap"} -> 8
      [] b = "normalMap" -> 12
      [] OTHER -> 4

\* the device's pitch alignment, in bytes
PitchAlignment == 32

getBytesUnpadded(b, dim) == dim[1] * ElemSize(b) * dim[2] * dim[3]

getBytesPadded(b, dim) ==
    divideRoundUp(dim[1] * ElemSize(b), PitchAlignment) * PitchAlignment * dim[2] * dim[3]

(***************************************************************************)
(* State.                                                                  *)
(*  engine[e]   host-side fields of engine e: construction state, its      *)
(*              copies of the parameters, the position of the host in      *)
(*              refineRc, the tile and inputs of the call in progress,     *)
(*              the camera references it holds                             *)
(*  dmpSize[e]  size of each device buffer of e (NotAllocated if none)     *)
(*  ..._dmp[e]  contents of the device buffers of e                        *)
(*  stream[e]   device operations pushed on e's stream and not yet run     *)
(*  deviceCache the DeviceCache singleton shared by all engines            *)
(*  history[e]  what happened during the call in progress (not read by     *)
(*              the program): operations issued and run, host blocks       *)
(***************************************************************************)
VARIABLES engine, dmpSize,
          sgmDepthPixSizeMap_dmp, refinedDepthSimMap_dmp, optimizedDepthSimMap_dmp,
          normalMap_dmp, volumeRefineSim_dmp,
          stream, deviceCache, history

contents == <<sgmDepthPixSizeMap_dmp, refinedDepthSimMap_dmp, optimizedDepthSimMap_dmp,
              normalMap_dmp, volumeRefineSim_dmp>>

vars == <<engine, dmpSize, contents, stream, deviceCache, history>>

\* a depth/similarity pixel; Sentinel is the "no data" value of a masked pixel,
\* an invalid depth with the similarity that line 142 writes at every pixel;
\* Uninit is what an allocated buffer holds before its first write
Sentinel == [depth |-> -1, sim |-> 1]
Uninit == [depth |-> -9, sim |-> -9]

UninitMap == [p \in Pixels |-> Uninit]

\* normal maps: the null pointer, the contents a buffer can hold (an allocated
\* buffer holds any of them before its first write)
NullNormalMap == 0
NormalValues == {1, 2}

NoTile == [rc |-> NoCam, roi |-> <<0, 0, 0, 0>>, refineTCams |-> <<>>, nbTiles |-> 0]

NoHistory == [issued |-> <<>>, executed |-> <<>>, nbHostBlocks |-> 0,
              exports |-> <<>>, rois |-> <<>>, sinceRc |-> {}, normalFrom |-> 0]

(***************************************************************************)
(* Refine::Refine.  The member initializers have run in the initial state; *)
(* each step of the constructor is one allocation, which succeeds or       *)
(* throws.  A throw unwinds the constructor: the destructors of the        *)
(* members release what was allocated and no object exists.                *)
(***************************************************************************)
NbAllocated(e) == Cardinality({b \in Buffers : dmpSize[e][b] # NotAllocated})

\* a faulty variant of Refine_throw: the failure is swallowed and the engine
\* is handed out with the buffers allocated so far
Mutant_Refine_throw(e) ==
    /\ engine' = [engine EXCEPT ![e].state = "constructed"]
    /\ UNCHANGED dmpSize

\* an allocation throws: the constructor unwinds
Refine_throw(e) ==
    /\ engine' = [engine EXCEPT ![e].state = "failed"]
    /\ dmpSize' = [dmpSize EXCEPT ![e] = [b \in Buffers |-> NotAllocated]]

Refine_allocate(e) ==
    LET rp == engine[e].refineParams
        tp == engine[e].tileParams
        plan == AllocationPlan(tp, rp)
        k == engine[e].nbAllocations + 1
    IN  /\ engine[e].state = "constructing"
        /\ k <= Len(plan)
        /\ \E ok \in BOOLEAN :
              IF ok
              THEN /\ dmpSize' = [dmpSize EXCEPT ![e][plan[k]] =
                                     AllocationDim(plan[k], tp, rp)]
                   /\ engine' = [engine EXCEPT
                                   ![e].nbAllocations = k,
                                   ![e].state = IF k = Len(plan) THEN "constructed"
                                                ELSE "constructing"]
                   /\ IF plan[k] = "normalMap"
                      THEN \E garbage \in NormalValues :
                              normalMap_dmp' = [normalMap_dmp EXCEPT ![e] = garbage]
                      ELSE UNCHANGED normalMap_dmp
              ELSE /\ Refine_throw(e)
                   /\ UNCHANGED normalMap_dmp
        /\ UNCHANGED <<sgmDepthPixSizeMap_dmp, refinedDepthSimMap_dmp,
                       optimizedDepthSimMap_dmp, volumeRefineSim_dmp,
                       stream, deviceCache, history>>

(***************************************************************************)
(* Refine::getDeviceMemoryConsumption and ...Unpadded.  The result is the  *)
(* double bytes / (1024 * 1024): kept as the fraction num / den.           *)
(***************************************************************************)
MegaBytes(bytes) == [num |-> bytes, den |-> 1024 * 1024]

FracLeq(a, b) == a.num * b.den <= b.num * a.den

\* the padded total over buffers of the given sizes
PaddedConsumption(size, rp) ==
    LET b1 == getBytesPadded("sgmDepthPixSizeMap", size["sgmDepthPixSizeMap"])
        b2 == b1 + getBytesPadded("refinedDepthSimMap", size["refinedDepthSimMap"])
        b3 == b2 + getBytesPadded("optimizedDepthSimMap", size["optimizedDepthSimMap"])
        b4 == b3 + getBytesPadded("normalMap", size["normalMap"])
        b5 == b4 + getBytesPadded("volumeRefineSim", size["volumeRefineSim"])
        b7 == IF rp.useColorOptimization
              THEN b5 + getBytesPadded("optImgVariance", size["optImgVariance"])
                      + getBytesPadded("optTmpDepthMap", size["optTmpDepthMap"])
              ELSE b5
    IN  MegaBytes(b7)

\* the unpadded total over buffers of the given sizes
UnpaddedConsumption(size, rp) ==
    LET b1 == getBytesUnpadded("sgmDepthPixSizeMap", size["sgmDepthPixSizeMap"])
        b2 == b1 + getBytesUnpadded("refinedDepthSimMap", size["refinedDepthSimMap"])
        b3 == b2 + getBytesUnpadded("optimizedDepthSimMap", size["optimizedDepthSimMap"])
        b4 == b3 + getBytesUnpadded("normalMap", size["normalMap"])
        b5 == b4 + getBytesUnpadded("volumeRefineSim", size["volumeRefineSim"])
        b7 == IF rp.useColorOptimization
              THEN b5 + getBytesUnpadded("optImgVariance", size["optImgVariance"])
                      + getBytesUnpadded("optTmpDepthMap", size["optTmpDepthMap"])
              ELSE b5
    IN  MegaBytes(b7)

getDeviceMemoryConsumption(e) == PaddedConsumption(dmpSize[e], engine[e].refineParams)

getDeviceMemoryConsumptionUnpadded(e) ==
    UnpaddedConsumption(dmpSize[e], engine[e].refineParams)

(***************************************************************************)
(* DeviceCache: a least-recently-used cache of device cameras keyed by     *)
(* (camera id, scale).  A DeviceCamera reference is a slot of the cache;   *)
(* on a miss the camera is uploaded into a free slot, or into the slot of  *)
(* the least recently used entry when the cache is full.                   *)
(***************************************************************************)
CameraKey(cam, scale) == <<cam, scale>>

\* the key of an empty slot
NoKey == <<NoCam, 0>>

CacheSlots(cache) == 1..cache.capacity

Without(seq, x) == SelectSeq(seq, LAMBDA y : y # x)

Lowest(S) == CHOOSE s \in S : \A t \in S : s <= t

\* the slot requestCamera returns for the key
requestCameraSlot(cache, key) ==
    LET hit  == {s \in CacheSlots(cache) : cache.slots[s] = key}
        free == {s \in CacheSlots(cache) : cache.slots[s] = NoKey}
    IN  IF hit # {} THEN Lowest(hit)
        ELSE IF free # {} THEN Lowest(free)
        ELSE Head(cache.lru)

\* the cache after requestCamera(key)
requestCamera(cache, key) ==
    LET s == requestCameraSlot(cache, key)
    IN  [cache EXCEPT !.slots[s] = key, !.lru = Without(cache.lru, s) \o <<s>>]

\* the camera a reference gives access to when it is dereferenced
CameraAt(slot) == deviceCache.slots[slot][1]

(***************************************************************************)
(* ROI helpers (mvsData/ROI.hpp).  A ROI is <<x.begin, x.end, y.begin,     *)
(* y.end>>, both ranges half-open.                                         *)
(***************************************************************************)
downscaleROI(roi, downscale) ==
    <<roi[1] \div downscale, roi[2] \div downscale,
      roi[3] \div downscale, roi[4] \div downscale>>

(***************************************************************************)
(* Device kernels, as functions from the buffers they read to the buffer   *)
(* they write.                                                             *)
(***************************************************************************)
Valid(px) == px.depth > 0

\* cuda_depthSimMapUpscaleAndFilter: every working pixel takes the value of
\* its coarse pixel; invalid (masked) pixels get the no-data value
depthSimMapUpscaleAndFilter(in_map) ==
    [p \in Pixels |->
        LET c == in_map[(p + 1) \div 2]
        IN  IF Valid(c) THEN c ELSE Sentinel]

\* the size of a pixel of camera cam at the given depth
PixSize(cam, depth) == depth * (cam + 1)

\* cuda_depthSimMapComputePixSize: similarity is replaced by the pixel size
depthSimMapComputePixSize(map, rcCam) ==
    [p \in Pixels |->
        IF Valid(map[p])
        THEN [depth |-> map[p].depth, sim |-> PixSize(rcCam, map[p].depth)]
        ELSE map[p]]

\* cuda_depthSimMapCopyDepthOnly
depthSimMapCopyDepthOnly(in_map, defaultSim) ==
    [p \in Pixels |-> [depth |-> in_map[p].depth, sim |-> defaultSim]]

\* cuda_volumeInitialize
volumeInitialize(nbDepths, value) ==
    [p \in Pixels |-> [z \in 0..(nbDepths - 1) |-> value]]

\* the inverted and filtered similarity of rc and tc at one depth hypothesis
Similarity(rcCam, tcCam, p, depth, z, normal) ==
    Pow(2, (rcCam + tcCam + p + depth + z + normal) % 3)

\* cuda_volumeRefineSimilarity: adds the similarity of (rc, tc) into the volume
volumeRefineSimilarity(vol, sgmMap, normal, rcCam, tcCam, depthRange) ==
    [p \in Pixels |->
        [z \in DOMAIN vol[p] |->
            IF Valid(sgmMap[p]) /\ z \in depthRange
            THEN FAdd(vol[p][z],
                      Similarity(rcCam, tcCam, p, sgmMap[p].depth, z, normal))
            ELSE vol[p][z]]]

\* the first depth index of the highest accumulated similarity
BestZ(col) ==
    CHOOSE z \in DOMAIN col :
        /\ \A y \in DOMAIN col : col[y] <= col[z]
        /\ \A y \in DOMAIN col : col[y] = col[z] => z <= y

\* cuda_volumeRefineBestDepth
volumeRefineBestDepth(sgmMap, vol, rp) ==
    [p \in Pixels |->
        IF Valid(sgmMap[p])
        THEN [depth |-> sgmMap[p].depth + (BestZ(vol[p]) - rp.halfNbDepths),
              sim   |-> vol[p][BestZ(vol[p])]]
        ELSE Sentinel]

\* the variance of the image of camera cam around pixel p (0 flat, 1 edge)
ImgVariance(cam, p) == (cam + p) % 2

\* one iteration of the optimizer: a valid depth moves to the mean of itself,
\* the upscaled SGM depth and, where the image is flat, its valid neighbours
OptimizeStep(map, sgmMap, rcCam) ==
    [p \in Pixels |->
        IF ~Valid(map[p]) THEN map[p]
        ELSE LET nb == {q \in Pixels : /\ Abs(q - p) = 1
                                       /\ Valid(map[q])
                                       /\ ImgVariance(rcCam, p) = 0}
                 l  == IF p - 1 \in nb THEN map[p - 1].depth ELSE 0
                 r  == IF p + 1 \in nb THEN map[p + 1].depth ELSE 0
             IN  [depth |-> (map[p].depth + l + r + sgmMap[p].depth)
                              \div (2 + Cardinality(nb)),
                  sim   |-> map[p].sim]]

RECURSIVE OptimizeIterate(_, _, _, _)
OptimizeIterate(map, sgmMap, rcCam, n) ==
    IF n <= 0 THEN map
    ELSE OptimizeIterate(OptimizeStep(map, sgmMap, rcCam), sgmMap, rcCam, n - 1)

\* cuda_depthSimMapOptimizeGradientDescent
depthSimMapOptimizeGradientDescent(sgmMap, refinedMap, rcCam, rp) ==
    OptimizeIterate(refinedMap, sgmMap, rcCam, rp.optimizationNbIterations)

(***************************************************************************)
(* The stream of an engine.  The host pushes an operation with the         *)
(* arguments of the call; the device runs the operation at the head.       *)
(***************************************************************************)
Op(name, rcCam, tcCam, roi, arg) ==
    [op |-> name, rc |-> rcCam, tc |-> tcCam, roi |-> roi, arg |-> arg]

\* the history of e after the host pushed ops on its stream
HistIssue(h, e, ops) ==
    [h EXCEPT ![e].issued = @ \o [i \in 1..Len(ops) |-> ops[i].op],
              ![e].rois = @ \o [i \in 1..Len(ops) |-> ops[i].roi]]

\* the histories after e asked the cache for a camera: every engine that is
\* in a call notes the cameras requested since it got its own R camera
HistRequest(h, e, cam, isRc) ==
    [g \in Engines |->
        IF g = e /\ isRc THEN [h[g] EXCEPT !.sinceRc = {}]
        ELSE IF engine[g].pc \notin {"idle", "done"} /\ cam # engine[g].tile.rc
             THEN [h[g] EXCEPT !.sinceRc = @ \cup {cam}]
             ELSE h[g]]

\* a faulty variant of Enqueue: the operations overtake the pending ones
Mutant_Enqueue(e, ops) ==
    /\ stream' = [stream EXCEPT ![e] = ops \o @]
    /\ history' = HistIssue(history, e, ops)

\* the host pushes ops on the stream of e
Enqueue(e, ops) ==
    /\ stream' = [stream EXCEPT ![e] = @ \o ops]
    /\ history' = HistIssue(history, e, ops)

\* the ROI of an operation that takes none and works on the whole buffer
NoRoi == <<0, 0, 0, 0>>

\* line 111: the downscaled ROI of refineRc
DownscaledRoi(e) ==
    downscaleROI(engine[e].tile.roi,
                 engine[e].refineParams.scale * engine[e].refineParams.stepXY)

\* line 168: the downscaled ROI of refineAndFuseDepthSimMap
refineAndFuse_downscaledRoi(e) ==
    downscaleROI(engine[e].tile.roi,
                 engine[e].refineParams.scale * engine[e].refineParams.stepXY)

\* a faulty variant of optimize_downscaledRoi: stepXY is left out of the factor
Mutant_optimize_downscaledRoi(e) ==
    downscaleROI(engine[e].tile.roi, engine[e].refineParams.scale)

\* line 232: the downscaled ROI of optimizeDepthSimMap
optimize_downscaledRoi(e) ==
    downscaleROI(engine[e].tile.roi,
                 engine[e].refineParams.scale * engine[e].refineParams.stepXY)

(***************************************************************************)
(* Refine::refineRc, one action per host step.                             *)
(***************************************************************************)
\* lines 102-115: the call, with its tile and inputs, up to the request of
\* the R camera
refineRc_call(e, tiles, inMaps, normalMaps) ==
    /\ engine[e].state = "constructed"
    /\ engine[e].pc = "idle"
    /\ engine[e].nbCalls < engine[e].maxCalls
    /\ \E t \in tiles, im \in inMaps, nm \in normalMaps :
         LET key == CameraKey(t.rc, engine[e].refineParams.scale)
         IN  /\ engine' = [engine EXCEPT
                   ![e].pc = "upscale", ![e].tile = t, ![e].tci = 0,
                   ![e].in_sgmDepthSimMap_dmp = im,
                   ![e].in_sgmNormalMap_dmp = nm,
                   ![e].rcDeviceCamera = requestCameraSlot(deviceCache, key)]
             /\ deviceCache' = requestCamera(deviceCache, key)
             /\ history' = HistRequest([history EXCEPT ![e] =
                                [NoHistory EXCEPT !.normalFrom = history[e].normalFrom]],
                                e, t.rc, TRUE)
    /\ UNCHANGED <<dmpSize, contents, stream>>

\* line 118
refineRc_upscale(e) ==
    /\ engine[e].pc = "upscale"
    /\ Enqueue(e, <<Op("depthSimMapUpscaleAndFilter",
                       CameraAt(engine[e].rcDeviceCamera), NoCam, DownscaledRoi(e), 0)>>)
    /\ engine' = [engine EXCEPT ![e].pc =
                     IF engine[e].refineParams.exportIntermediateDepthSimMaps
                     THEN "exportSgm" ELSE "pixSize"]
    /\ UNCHANGED <<dmpSize, contents, deviceCache>>

\* writeDepthSimMap: the host copies the map from the device, which waits for
\* the operations pushed before
writeDepthSimMap(e, name, nextPc) ==
    /\ stream[e] = <<>>
    /\ history' = [history EXCEPT ![e].exports = @ \o <<name>>,
                                  ![e].nbHostBlocks = @ + 1]
    /\ engine' = [engine EXCEPT ![e].pc = nextPc]
    /\ UNCHANGED <<dmpSize, contents, stream, deviceCache>>

\* lines 121-122
refineRc_exportSgm(e) ==
    /\ engine[e].pc = "exportSgm"
    /\ writeDepthSimMap(e, "_sgmUpscaled", "pixSize")

\* lines 125-130
refineRc_pixSize(e) ==
    LET rp == engine[e].refineParams
        pixSize == <<Op("depthSimMapComputePixSize",
                        CameraAt(engine[e].rcDeviceCamera), NoCam, DownscaledRoi(e), 0)>>
        normal == IF rp.useNormalMap /\ engine[e].in_sgmNormalMap_dmp # NullNormalMap
                  THEN <<Op("normalMapUpscale", NoCam, NoCam, DownscaledRoi(e), 0)>>
                  ELSE <<>>
    IN  /\ engine[e].pc = "pixSize"
        /\ Enqueue(e, pixSize \o normal)
        /\ engine' = [engine EXCEPT ![e].pc = "fuse"]
        /\ UNCHANGED <<dmpSize, contents, deviceCache>>

\* a faulty variant of PassThroughSim: the no-data depth written as similarity
Mutant_PassThroughSim == Sentinel.depth

\* the similarity the pass-through writes (1.0f at line 142)
PassThroughSim == 1

\* a faulty variant of UseRefineFuse: the test of line 134 inverted
Mutant_UseRefineFuse(rp) == ~rp.useRefineFuse

\* line 134
UseRefineFuse(rp) == rp.useRefineFuse

\* a faulty variant of InitializeVolume: the volume is set to zero by the
\* first call on the engine only
Mutant_InitializeVolume(e) ==
    IF engine[e].nbCalls = 0
    THEN <<Op("volumeInitialize", NoCam, NoCam, NoRoi, 0)>>
    ELSE <<>>

\* line 175
InitializeVolume(e) == <<Op("volumeInitialize", NoCam, NoCam, NoRoi, 0)>>

\* lines 134-143, and lines 163-181 of refineAndFuseDepthSimMap: the volume
\* is initialized and the R camera requested, or the depth is copied through
refineRc_fuse(e) ==
    LET rp == engine[e].refineParams
        key == CameraKey(engine[e].tile.rc, rp.scale)
    IN  /\ engine[e].pc = "fuse"
        /\ IF UseRefineFuse(rp)
           THEN LET ops == InitializeVolume(e)
                IN  /\ stream' = [stream EXCEPT ![e] = @ \o ops]
                    /\ history' = HistRequest(HistIssue(history, e, ops),
                                              e, engine[e].tile.rc, TRUE)
                    /\ deviceCache' = requestCamera(deviceCache, key)
                    /\ engine' = [engine EXCEPT
                          ![e].pc = "tcLoop", ![e].tci = 0,
                          ![e].rcDeviceCamera = requestCameraSlot(deviceCache, key)]
           ELSE /\ Enqueue(e, <<Op("depthSimMapCopyDepthOnly", NoCam, NoCam,
                                   NoRoi, PassThroughSim)>>)
                /\ engine' = [engine EXCEPT ![e].pc =
                                 IF rp.exportIntermediateDepthSimMaps
                                 THEN "exportRefined" ELSE "optimize"]
                /\ UNCHANGED deviceCache
        /\ UNCHANGED <<dmpSize, contents>>

(***************************************************************************)
(* Refine::refineAndFuseDepthSimMap, the loop over the T cameras and what  *)
(* follows it.                                                             *)
(***************************************************************************)
\* a faulty variant of MoreTCams: the last T camera is skipped
Mutant_MoreTCams(e) == engine[e].tci + 1 < Len(engine[e].tile.refineTCams)

\* line 185: the loop test
MoreTCams(e) == engine[e].tci < Len(engine[e].tile.refineTCams)

\* lines 185-190: the loop test and the request of the T camera
refineAndFuse_requestTc(e) ==
    LET rp == engine[e].refineParams
        tcams == engine[e].tile.refineTCams
    IN  /\ engine[e].pc = "tcLoop"
        /\ IF MoreTCams(e)
           THEN LET tc == tcams[engine[e].tci + 1]
                    key == CameraKey(tc, rp.scale)
                IN  /\ deviceCache' = requestCamera(deviceCache, key)
                    /\ history' = HistRequest(history, e, tc, FALSE)
                    /\ engine' = [engine EXCEPT
                          ![e].pc = "tcKernel",
                          ![e].tcDeviceCamera = requestCameraSlot(deviceCache, key)]
           ELSE /\ engine' = [engine EXCEPT ![e].pc = "exportVolume"]
                /\ UNCHANGED <<deviceCache, history>>
        /\ UNCHANGED <<dmpSize, contents, stream>>

\* line 171: depthRange is [0, depthRangeEnd)
depthRangeEnd(e) == dmpSize[e]["volumeRefineSim"][3]

\* lines 200-208
refineAndFuse_similarity(e) ==
    /\ engine[e].pc = "tcKernel"
    /\ Enqueue(e, <<Op("volumeRefineSimilarity",
                       CameraAt(engine[e].rcDeviceCamera),
                       CameraAt(engine[e].tcDeviceCamera), refineAndFuse_downscaledRoi(e),
                       depthRangeEnd(e))>>)
    /\ engine' = [engine EXCEPT ![e].pc = "tcLoop", ![e].tci = @ + 1]
    /\ UNCHANGED <<dmpSize, contents, deviceCache>>

\* a faulty variant of ExportsVolume: the volume is copied to the host whatever
\* the flags
Mutant_ExportsVolume(rp) == TRUE

\* lines 253-254: whether exportVolumeInformation has anything to do
ExportsVolume(rp) ==
    rp.exportIntermediateCrossVolumes \/ rp.exportIntermediateVolume9pCsv

\* lines 251-299, called at line 212: nothing when no volume export is
\* asked for; else the volume is copied to the host, which waits for the
\* operations pushed before, and written
exportVolumeInformation(e) ==
    LET rp == engine[e].refineParams
    IN  /\ engine[e].pc = "exportVolume"
        /\ IF ~ExportsVolume(rp)
           THEN UNCHANGED <<history, stream>>
           ELSE /\ stream[e] = <<>>
                /\ history' = [history EXCEPT
                      ![e].nbHostBlocks = @ + 1,
                      ![e].exports = @
                         \o (IF rp.exportIntermediateCrossVolumes
                             THEN <<"volumeCross">> ELSE <<>>)
                         \o (IF rp.exportIntermediateVolume9pCsv
                             THEN <<"stats9p">> ELSE <<>>)]
                /\ UNCHANGED stream
        /\ engine' = [engine EXCEPT ![e].pc = "bestDepth"]
        /\ UNCHANGED <<dmpSize, contents, deviceCache>>

\* lines 216-222
refineAndFuse_bestDepth(e) ==
    /\ engine[e].pc = "bestDepth"
    /\ Enqueue(e, <<Op("volumeRefineBestDepth",
                       CameraAt(engine[e].rcDeviceCamera), NoCam, refineAndFuse_downscaledRoi(e), 0)>>)
    /\ engine' = [engine EXCEPT ![e].pc =
                     IF engine[e].refineParams.exportIntermediateDepthSimMaps
                     THEN "exportRefined" ELSE "optimize"]
    /\ UNCHANGED <<dmpSize, contents, deviceCache>>

\* lines 146-147
refineRc_exportRefined(e) ==
    /\ engine[e].pc = "exportRefined"
    /\ writeDepthSimMap(e, "_refinedFused", "optimize")

\* a faulty variant of UseOptimizer: either condition is enough
Mutant_UseOptimizer(rp) == rp.useColorOptimization \/ rp.optimizationNbIterations > 0

\* line 150
UseOptimizer(rp) == rp.useColorOptimization /\ rp.optimizationNbIterations > 0

\* lines 150-158, and lines 227-236 of optimizeDepthSimMap: the R camera is
\* requested for the optimizer, or the refined map is copied
refineRc_optimize(e) ==
    LET rp == engine[e].refineParams
        key == CameraKey(engine[e].tile.rc, rp.scale)
    IN  /\ engine[e].pc = "optimize"
        /\ IF UseOptimizer(rp)
           THEN /\ deviceCache' = requestCamera(deviceCache, key)
                /\ history' = HistRequest(history, e, engine[e].tile.rc, TRUE)
                /\ engine' = [engine EXCEPT
                      ![e].pc = "optKernel",
                      ![e].rcDeviceCamera = requestCameraSlot(deviceCache, key)]
                /\ UNCHANGED stream
           ELSE /\ Enqueue(e, <<Op("copyFrom", NoCam, NoCam, NoRoi, 0)>>)
                /\ engine' = [engine EXCEPT ![e].pc = "done"]
                /\ UNCHANGED deviceCache
        /\ UNCHANGED <<dmpSize, contents>>

\* lines 238-246
optimizeDepthSimMap(e) ==
    /\ engine[e].pc = "optKernel"
    /\ Enqueue(e, <<Op("depthSimMapOptimizeGradientDescent",
                       CameraAt(engine[e].rcDeviceCamera), NoCam, optimize_downscaledRoi(e), 0)>>)
    /\ engine' = [engine EXCEPT ![e].pc = "done"]
    /\ UNCHANGED <<dmpSize, contents, deviceCache>>

\* the caller retrieves the optimized map: it waits for the stream
retrieve(e) ==
    /\ engine[e].pc = "done"
    /\ stream[e] = <<>>
    /\ engine' = [engine EXCEPT ![e].pc = "idle", ![e].nbCalls = @ + 1]
    /\ UNCHANGED <<dmpSize, contents, stream, deviceCache, history>>

(***************************************************************************)
(* The device runs the operation at the head of the stream of e.           *)
(***************************************************************************)
\* what the similarity kernel gets as normal map (line 202)
NormalMapArg(e) ==
    IF engine[e].refineParams.useNormalMap THEN normalMap_dmp[e] ELSE NullNormalMap

DeviceExecute(e) ==
    /\ stream[e] # <<>>
    /\ LET o == Head(stream[e])
           rp == engine[e].refineParams
       IN  /\ stream' = [stream EXCEPT ![e] = Tail(@)]
           /\ history' = [history EXCEPT
                 ![e].executed = @ \o <<o.op>>,
                 ![e].normalFrom = IF o.op = "normalMapUpscale"
                                   THEN engine[e].nbCalls + 1 ELSE @]
           /\ CASE o.op = "depthSimMapUpscaleAndFilter" ->
                    /\ sgmDepthPixSizeMap_dmp' = [sgmDepthPixSizeMap_dmp EXCEPT ![e] =
                          depthSimMapUpscaleAndFilter(engine[e].in_sgmDepthSimMap_dmp)]
                    /\ UNCHANGED <<refinedDepthSimMap_dmp, optimizedDepthSimMap_dmp,
                                   normalMap_dmp, volumeRefineSim_dmp>>
                [] o.op = "depthSimMapComputePixSize" ->
                    /\ sgmDepthPixSizeMap_dmp' = [sgmDepthPixSizeMap_dmp EXCEPT ![e] =
                          depthSimMapComputePixSize(@, o.rc)]
                    /\ UNCHANGED <<refinedDepthSimMap_dmp, optimizedDepthSimMap_dmp,
                                   normalMap_dmp, volumeRefineSim_dmp>>
                [] o.op = "normalMapUpscale" ->
                    /\ normalMap_dmp' = [normalMap_dmp EXCEPT ![e] =
                          engine[e].in_sgmNormalMap_dmp]
                    /\ UNCHANGED <<sgmDepthPixSizeMap_dmp, refinedDepthSimMap_dmp,
                                   optimizedDepthSimMap_dmp, volumeRefineSim_dmp>>
                [] o.op = "volumeInitialize" ->
                    /\ volumeRefineSim_dmp' = [volumeRefineSim_dmp EXCEPT ![e] =
                          volumeInitialize(dmpSize[e]["volumeRefineSim"][3], 0)]
                    /\ UNCHANGED <<sgmDepthPixSizeMap_dmp, refinedDepthSimMap_dmp,
                                   optimizedDepthSimMap_dmp, normalMap_dmp>>
                [] o.op = "volumeRefineSimilarity" ->
                    /\ volumeRefineSim_dmp' = [volumeRefineSim_dmp EXCEPT ![e] =
                          volumeRefineSimilarity(@, sgmDepthPixSizeMap_dmp[e],
                             NormalMapArg(e), o.rc, o.tc, 0..(o.arg - 1))]
                    /\ UNCHANGED <<sgmDepthPixSizeMap_dmp, refinedDepthSimMap_dmp,
                                   optimizedDepthSimMap_dmp, normalMap_dmp>>
                [] o.op = "volumeRefineBestDepth" ->
                    /\ refinedDepthSimMap_dmp' = [refinedDepthSimMap_dmp EXCEPT ![e] =
                          volumeRefineBestDepth(sgmDepthPixSizeMap_dmp[e],
                                                volumeRefineSim_dmp[e], rp)]
                    /\ UNCHANGED <<sgmDepthPixSizeMap_dmp, optimizedDepthSimMap_dmp,
                                   normalMap_dmp, volumeRefineSim_dmp>>
                [] o.op = "depthSimMapCopyDepthOnly" ->
                    /\ refinedDepthSimMap_dmp' = [refinedDepthSimMap_dmp EXCEPT ![e] =
                          depthSimMapCopyDepthOnly(sgmDepthPixSizeMap_dmp[e], o.arg)]
                    /\ UNCHANGED <<sgmDepthPixSizeMap_dmp, optimizedDepthSimMap_dmp,
                                   normalMap_dmp, volumeRefineSim_dmp>>
                [] o.op = "copyFrom" ->
                    /\ optimizedDepthSimMap_dmp' = [optimizedDepthSimMap_dmp EXCEPT ![e] =
                          refinedDepthSimMap_dmp[e]]
                    /\ UNCHANGED <<sgmDepthPixSizeMap_dmp, refinedDepthSimMap_dmp,
                                   normalMap_dmp, volumeRefineSim_dmp>>
                [] o.op = "depthSimMapOptimizeGradientDescent" ->
                    /\ optimizedDepthSimMap_dmp' = [optimizedDepthSimMap_dmp EXCEPT ![e] =
                          depthSimMapOptimizeGradientDescent(sgmDepthPixSizeMap_dmp[e],
                             refinedDepthSimMap_dmp[e], o.rc, rp)]
                    /\ UNCHANGED <<sgmDepthPixSizeMap_dmp, refinedDepthSimMap_dmp,
                                   normalMap_dmp, volumeRefineSim_dmp>>
    /\ UNCHANGED <<engine, dmpSize, deviceCache>>

(***************************************************************************)
(* Tiles and inputs of the calls.                                          *)
(***************************************************************************)
TileSet(rcs, tcamSeqs, rois, nbs) ==
    { t \in { [rc |-> rc, roi |-> roi, refineTCams |-> tcs, nbTiles |-> nb] :
                rc \in rcs, tcs \in tcamSeqs, roi \in rois, nb \in nbs } :
        t.rc \notin SeqToSet(t.refineTCams) }

\* coarse maps whose pixels in masked are invalid, the others at a depth that
\* grows with the pixel
InMapSet(maskedSets) ==
    { [p \in CoarsePixels |->
          IF p \in m THEN Sentinel ELSE [depth |-> 2 * p, sim |-> 0]] : m \in maskedSets }

InMaps == InMapSet({{}, {1}, CoarsePixels})

\* every step of engine e
Step(e, tiles, inMaps, normalMaps) ==
    \/ Refine_allocate(e)
    \/ refineRc_call(e, tiles, inMaps, normalMaps)
    \/ refineRc_upscale(e)
    \/ refineRc_exportSgm(e)
    \/ refineRc_pixSize(e)
    \/ refineRc_fuse(e)
    \/ refineAndFuse_requestTc(e)
    \/ refineAndFuse_similarity(e)
    \/ exportVolumeInformation(e)
    \/ refineAndFuse_bestDepth(e)
    \/ refineRc_exportRefined(e)
    \/ refineRc_optimize(e)
    \/ optimizeDepthSimMap(e)
    \/ retrieve(e)
    \/ DeviceExecute(e)

(***************************************************************************)
(* Initial states: every engine is under construction with the job's       *)
(* parameters, the cache is empty, nothing is allocated.                   *)
(***************************************************************************)
InitWithCalls(RPs, TPs, Caps, calls) ==
    \E rp \in RPs, tp \in TPs, cap \in Caps :
      /\ engine = [e \in Engines |->
            [state |-> "constructing", nbAllocations |-> 0,
             refineParams |-> rp, tileParams |-> tp,
             pc |-> "idle", tile |-> NoTile, tci |-> 0,
             rcDeviceCamera |-> 0, tcDeviceCamera |-> 0,
             in_sgmDepthSimMap_dmp |-> [p \in CoarsePixels |-> Sentinel],
             in_sgmNormalMap_dmp |-> NullNormalMap,
             nbCalls |-> 0, maxCalls |-> calls]]
      /\ dmpSize = [e \in Engines |-> [b \in Buffers |-> NotAllocated]]
      /\ sgmDepthPixSizeMap_dmp = [e \in Engines |-> UninitMap]
      /\ refinedDepthSimMap_dmp = [e \in Engines |-> UninitMap]
      /\ optimizedDepthSimMap_dmp = [e \in Engines |-> UninitMap]
      /\ normalMap_dmp = [e \in Engines |-> NullNormalMap]
      /\ volumeRefineSim_dmp = [e \in Engines |-> <<>>]
      /\ stream = [e \in Engines |-> <<>>]
      /\ deviceCache = [capacity |-> cap,
                        slots |-> [s \in 1..MaxCacheCapacity |-> NoKey],
                        lru |-> <<>>]
      /\ history = [e \in Engines |-> NoHistory]

\* the job calls refineRc MaxCalls times on each engine
InitWith(RPs, TPs, Caps) == InitWithCalls(RPs, TPs, Caps, MaxCalls)

(***************************************************************************)
(* Construction alone, over tile sizes and depth counts.                   *)
(***************************************************************************)
BufferDims == 1..MaxBufferDim

InitCtor ==
    InitWith(RefineParamsSet({TRUE}, BOOLEAN, {-1, 0, 1}, BOOLEAN,
                             0..MaxHalfNbDepths, {NoExport}),
             TileParamsSet(BufferDims, BufferDims), {MaxCacheCapacity})

NextCtor == Refine_allocate(1)

SpecCtor == InitCtor /\ [][NextCtor]_vars

(***************************************************************************)
(* One engine, every combination of the flags.                             *)
(***************************************************************************)
Init ==
    InitWith(RefineParamsSet(BOOLEAN, BOOLEAN, {-1, 0, 1}, BOOLEAN,
                             0..MaxHalfNbDepths, {NoExport, AllExports}),
             TileParamsSet({4}, {4}), {MaxCacheCapacity})

Next ==
    Step(1, TileSet({0}, {<<>>, <<1>>, <<1, 2>>}, {<<0, 4, 0, 4>>}, {1}),
         InMaps, {NullNormalMap, 1})

Spec == Init /\ [][Next]_vars


(***************************************************************************)
(* One engine with refine and fuse on, up to three T cameras, a cache      *)
(* that holds every camera.                                                *)
(***************************************************************************)
InitFuse ==
    InitWith(RefineParamsSet({TRUE}, {TRUE}, {1}, BOOLEAN,
                             0..MaxHalfNbDepths, {NoExport, AllExports}),
             TileParamsSet({4}, {4}), {MaxCacheCapacity})

NextFuse ==
    Step(1, TileSet({0}, {<<>>, <<1, 2>>, <<1, 2, 3>>, <<3, 1, 2>>},
                    {<<0, 4, 0, 4>>}, {1}),
         InMaps, {NullNormalMap, 1})

SpecFuse == InitFuse /\ [][NextFuse]_vars

(***************************************************************************)
(* Two engines on their own streams, each refining a tile of its own R     *)
(* camera against one T camera, over caches of two cameras and more.       *)
(***************************************************************************)
InitConcurrent ==
    InitWith(RefineParamsSet({TRUE}, {TRUE}, {1}, {FALSE},
                             {MaxHalfNbDepths}, {NoExport, AllExports}),
             TileParamsSet({4}, {4}), 2..MaxCacheCapacity)

TilesOf(e) ==
    IF e = 1 THEN TileSet({0}, {<<1>>}, {<<0, 4, 0, 4>>}, {1})
    ELSE TileSet({2}, {<<3>>}, {<<0, 4, 0, 4>>}, {1})

NextConcurrent ==
    \E e \in Engines : Step(e, TilesOf(e), InMapSet({{}}), {NullNormalMap})

SpecConcurrent == InitConcurrent /\ [][NextConcurrent]_vars

(***************************************************************************)
(* One engine, every combination of the export flags.                      *)
(***************************************************************************)
ExportFlagSets == {<<a, b, c>> : a \in BOOLEAN, b \in BOOLEAN, c \in BOOLEAN}

InitExport ==
    InitWith(RefineParamsSet(BOOLEAN, {TRUE}, {1}, {FALSE},
                             {MaxHalfNbDepths}, ExportFlagSets),
             TileParamsSet({4}, {4}), {MaxCacheCapacity})

NextExport ==
    Step(1, TileSet({0}, {<<1>>, <<1, 2>>}, {<<0, 4, 0, 4>>}, {1}),
         InMaps, {NullNormalMap})

SpecExport == InitExport /\ [][NextExport]_vars

(***************************************************************************)
(* One engine refining one tile after another.                             *)
(***************************************************************************)
InitRepeat ==
    InitWithCalls(RefineParamsSet({TRUE}, {TRUE}, {1}, {FALSE},
                                  {MaxHalfNbDepths}, {NoExport, AllExports}),
                  TileParamsSet({4}, {4}), {MaxCacheCapacity}, MaxCalls + 1)

NextRepeat ==
    Step(1, TileSet({0}, {<<>>, <<1>>, <<1, 2>>}, {<<0, 4, 0, 4>>}, {1}),
         InMaps, {NullNormalMap})

SpecRepeat == InitRepeat /\ [][NextRepeat]_vars

(***************************************************************************)
(* One engine, one call, over the buffer sizes of the job and the ROIs     *)
(* of a tile that fit in them.                                             *)
(***************************************************************************)
RoiWidth(roi) == roi[2] - roi[1]

RoiHeight(roi) == roi[4] - roi[3]

RoiSet ==
    { <<xb, xb + w, yb, yb + h>> :
         xb \in 0..MaxRoiBegin, yb \in 0..MaxRoiBegin, w \in BufferDims, h \in BufferDims }

\* the ROI of the tile is at most bufferWidth x bufferHeight
RoiFits(roi, tp) ==
    RoiWidth(roi) <= tp.bufferWidth /\ RoiHeight(roi) <= tp.bufferHeight

InitRoi ==
    InitWithCalls(RefineParamsSet({TRUE}, {TRUE}, {1}, {FALSE},
                                  {MaxHalfNbDepths}, {NoExport, AllExports}),
                  TileParamsSet(BufferDims, BufferDims), {MaxCacheCapacity}, 1)

NextRoi ==
    Step(1, { t \in TileSet({0}, {<<1>>}, RoiSet, {1}) :
                 RoiFits(t.roi, engine[1].tileParams) },
         InMapSet({{}}), {NullNormalMap})

SpecRoi == InitRoi /\ [][NextRoi]_vars

(***************************************************************************)
(* Properties.                                                             *)
(***************************************************************************)
VolumeOps == {"volumeInitialize", "volumeRefineSimilarity", "volumeRefineBestDepth"}

Ran(e, op) == op \in SeqToSet(history[e].executed)

Issued(e, op) == op \in SeqToSet(history[e].issued)

\* C1: with useRefineFuse off, no operation of the refine-and-fuse volume
\* phase is issued, and once the pass-through copy has run the refined map
\* holds at every pixel the depth of the upscaled SGM map and similarity 1.0.
C1_PassThrough ==
    \A e \in Engines :
        ~engine[e].refineParams.useRefineFuse =>
            /\ \A op \in VolumeOps : ~Issued(e, op)
            /\ Ran(e, "depthSimMapCopyDepthOnly") =>
                  \A p \in Pixels :
                     /\ refinedDepthSimMap_dmp[e][p].depth
                           = sgmDepthPixSizeMap_dmp[e][p].depth
                     /\ refinedDepthSimMap_dmp[e][p].sim = 1

C1_Witness ==
    \E e \in Engines :
        /\ ~engine[e].refineParams.useRefineFuse
        /\ Ran(e, "depthSimMapCopyDepthOnly")
        /\ \E p \in Pixels : refinedDepthSimMap_dmp[e][p].depth > 0

\* C2: with useColorOptimization off or optimizationNbIterations = 0 the
\* optimizer is never issued, and once the copy has run the optimized map is
\* equal to the refined and fused map.
C2_OptimizedIsCopy ==
    \A e \in Engines :
        LET rp == engine[e].refineParams
        IN  (~rp.useColorOptimization \/ rp.optimizationNbIterations = 0) =>
               /\ ~Issued(e, "depthSimMapOptimizeGradientDescent")
               /\ Ran(e, "copyFrom") =>
                     optimizedDepthSimMap_dmp[e] = refinedDepthSimMap_dmp[e]

C2_Witness ==
    \E e \in Engines :
        /\ engine[e].refineParams.useColorOptimization
        /\ engine[e].refineParams.optimizationNbIterations = 0
        /\ engine[e].refineParams.useRefineFuse
        /\ Ran(e, "copyFrom")
        /\ \E p \in Pixels : optimizedDepthSimMap_dmp[e][p].depth > 0

(***************************************************************************)
(* The fused volume as a function of the order of the T cameras.           *)
(***************************************************************************)
RECURSIVE FusedVolume(_, _, _, _, _, _)
FusedVolume(tcams, k, sgmMap, normal, rcCam, nbDepths) ==
    IF k = 0 THEN volumeInitialize(nbDepths, 0)
    ELSE volumeRefineSimilarity(
            FusedVolume(tcams, k - 1, sgmMap, normal, rcCam, nbDepths),
            sgmMap, normal, rcCam, tcams[k], 0..(nbDepths - 1))

PermutationsOf(seq) ==
    { q \in [1..Len(seq) -> SeqToSet(seq)] : SeqToSet(q) = SeqToSet(seq) }

RECURSIVE ExactSum(_, _, _, _, _, _, _)
ExactSum(tcams, k, rcCam, p, depth, z, normal) ==
    IF k = 0 THEN 0
    ELSE ExactSum(tcams, k - 1, rcCam, p, depth, z, normal)
         + Similarity(rcCam, tcams[k], p, depth, z, normal)

\* x is the sum s of n terms up to the rounding of n - 1 additions
WithinRounding(x, s, n) ==
    LET m == Pow(2, MantissaBits)
        k == Max(n - 1, 0)
    IN  /\ x * Pow(m, k) <= s * Pow(m + 1, k)
        /\ x * Pow(m, k) >= s * Pow(m - 1, k)

Count(seq, x) == Cardinality({i \in 1..Len(seq) : seq[i] = x})

\* the loop over the T cameras of the call of e has run on the device
AtLoopEnd(e) ==
    /\ Ran(e, "volumeInitialize")
    /\ ~Ran(e, "volumeRefineBestDepth")
    /\ engine[e].pc \in {"exportVolume", "bestDepth", "exportRefined", "optimize",
                          "optKernel", "done"}
    /\ Count(history[e].executed, "volumeRefineSimilarity")
          = Count(history[e].issued, "volumeRefineSimilarity")

FusedVolumeOf(e, tcams) ==
    FusedVolume(tcams, Len(tcams), sgmDepthPixSizeMap_dmp[e], NormalMapArg(e),
                engine[e].tile.rc, nbDepthsToRefine(engine[e].refineParams))

ConstructedSize(tp, rp) ==
    [b \in Buffers |->
        IF b \in SeqToSet(AllocationPlan(tp, rp)) THEN AllocationDim(b, tp, rp)
        ELSE NotAllocated]

\* C4: an engine whose parameters are invalid is never constructed and
\* allocates no device buffer.
C4_InvalidRejected ==
    \A e \in Engines :
        ~ValidParams(engine[e].refineParams) =>
            /\ engine[e].state # "constructed"
            /\ NbAllocated(e) = 0

C9_VolumeDepthExtent ==
    \A e \in Engines :
        LET nb == 2 * engine[e].refineParams.halfNbDepths + 1
        IN  /\ dmpSize[e]["volumeRefineSim"] # NotAllocated =>
                  dmpSize[e]["volumeRefineSim"][3] = nb
            /\ \A i \in 1..Len(stream[e]) :
                  stream[e][i].op = "volumeRefineSimilarity" => stream[e][i].arg = nb
            /\ Ran(e, "volumeInitialize") =>
                  \A p \in Pixels : DOMAIN volumeRefineSim_dmp[e][p] = 0..(nb - 1)

C9_Witness ==
    \E e \in Engines :
        /\ engine[e].refineParams.halfNbDepths = MaxHalfNbDepths
        /\ Ran(e, "volumeRefineSimilarity")
        /\ \E i \in 1..Len(stream[e]) : stream[e][i].op = "volumeRefineSimilarity"
        /\ \E p \in Pixels : \E z \in DOMAIN volumeRefineSim_dmp[e][p] :
              z = 2 * MaxHalfNbDepths /\ volumeRefineSim_dmp[e][p][z] > 0

\* C10: an engine never reports more memory, padded or unpadded, than an
\* engine built with the same flags and a bufferWidth, a bufferHeight and a
\* halfNbDepths at least as large.
C10_ConsumptionMonotone ==
    \A e \in Engines :
        engine[e].state = "constructed" =>
            \A w \in BufferDims, h \in BufferDims, d \in 0..MaxHalfNbDepths :
                LET tp == engine[e].tileParams
                    rp == engine[e].refineParams
                    tp2 == [tp EXCEPT !.bufferWidth = w, !.bufferHeight = h]
                    rp2 == [rp EXCEPT !.halfNbDepths = d]
                IN  (w >= tp.bufferWidth /\ h >= tp.bufferHeight /\ d >= rp.halfNbDepths) =>
                       /\ FracLeq(getDeviceMemoryConsumption(e),
                                  PaddedConsumption(ConstructedSize(tp2, rp2), rp2))
                       /\ FracLeq(getDeviceMemoryConsumptionUnpadded(e),
                                  UnpaddedConsumption(ConstructedSize(tp2, rp2), rp2))

C10_Witness ==
    \E e \in Engines :
        /\ engine[e].state = "constructed"
        /\ engine[e].tileParams.bufferWidth < MaxBufferDim
        /\ engine[e].tileParams.bufferHeight < MaxBufferDim
        /\ engine[e].refineParams.halfNbDepths < MaxHalfNbDepths
        /\ getDeviceMemoryConsumptionUnpadded(e).num > 0
        /\ getDeviceMemoryConsumption(e).num
              > getDeviceMemoryConsumptionUnpadded(e).num

(***************************************************************************)
(* Order of the device operations of a call.                               *)
(***************************************************************************)
\* the positions of op in a sequence of operation names
Positions(seq, op) == {i \in 1..Len(seq) : seq[i] = op}

\* every op of the set before comes, in seq, before every op of the set after
Precede(seq, before, after) ==
    \A a \in after, b \in before :
        \A i \in Positions(seq, a) :
            /\ Positions(seq, b) # {}
            /\ \A j \in Positions(seq, b) : j < i

UpscalePhaseOps == {"depthSimMapUpscaleAndFilter", "depthSimMapComputePixSize"}

FusePhaseOps == VolumeOps \cup {"depthSimMapCopyDepthOnly"}

RefinedMapWriters == {"volumeRefineBestDepth", "depthSimMapCopyDepthOnly"}

OptimizePhaseOps == {"depthSimMapOptimizeGradientDescent", "copyFrom"}

\* C7: the operations of a call run on the device in the order the host
\* issued them on the engine's stream: the upscale and the pixel size run
\* before every operation of the refine-and-fuse phase, the refined map is
\* written before the optimizer or the copy reads it, each phase reads the map
\* its predecessor wrote, and without export flag the host never waits.
C7_ProgramOrder ==
    \A e \in Engines :
        LET h == history[e]
            rp == engine[e].refineParams
        IN  /\ h.issued = h.executed \o [i \in 1..Len(stream[e]) |-> stream[e][i].op]
            /\ Precede(h.executed, UpscalePhaseOps, FusePhaseOps)
            /\ \A op \in OptimizePhaseOps :
                  Positions(h.executed, op) # {} =>
                     \E w \in RefinedMapWriters :
                        /\ Positions(h.executed, w) # {}
                        /\ \A i \in Positions(h.executed, op) :
                              \A j \in Positions(h.executed, w) : j < i
            /\ Ran(e, "depthSimMapCopyDepthOnly") =>
                  refinedDepthSimMap_dmp[e] =
                     depthSimMapCopyDepthOnly(
                        depthSimMapComputePixSize(
                           depthSimMapUpscaleAndFilter(engine[e].in_sgmDepthSimMap_dmp),
                           engine[e].tile.rc),
                        PassThroughSim)
            /\ (~rp.exportIntermediateDepthSimMaps
                /\ ~rp.exportIntermediateCrossVolumes
                /\ ~rp.exportIntermediateVolume9pCsv) => h.nbHostBlocks = 0

C7_Witness ==
    \E e \in Engines :
        /\ ~engine[e].refineParams.exportIntermediateDepthSimMaps
        /\ engine[e].refineParams.useRefineFuse
        /\ engine[e].pc = "done"
        /\ history[e].executed = <<"depthSimMapUpscaleAndFilter">>
        /\ Len(stream[e]) >= 5
        /\ history[e].nbHostBlocks = 0

SoloOutput(e) ==
    LET rp == engine[e].refineParams
        t == engine[e].tile
        sgmMap == depthSimMapComputePixSize(
                     depthSimMapUpscaleAndFilter(engine[e].in_sgmDepthSimMap_dmp), t.rc)
        refined == IF UseRefineFuse(rp)
                   THEN volumeRefineBestDepth(sgmMap,
                           FusedVolume(t.refineTCams, Len(t.refineTCams), sgmMap,
                                       NormalMapArg(e), t.rc, nbDepthsToRefine(rp)), rp)
                   ELSE depthSimMapCopyDepthOnly(sgmMap, PassThroughSim)
    IN  IF UseOptimizer(rp)
        THEN depthSimMapOptimizeGradientDescent(sgmMap, refined, t.rc, rp)
        ELSE refined

WithoutExports(rp) ==
    [rp EXCEPT !.exportIntermediateDepthSimMaps = FALSE,
               !.exportIntermediateCrossVolumes = FALSE,
               !.exportIntermediateVolume9pCsv = FALSE]

\* the upscaled SGM map, the volume, the refined map and the optimized map
\* that the call of tile t on the coarse map inMap gives under parameters rp
SoloSgmMap(t, inMap) ==
    depthSimMapComputePixSize(depthSimMapUpscaleAndFilter(inMap), t.rc)

SoloVolume(rp, t, inMap, normal) ==
    FusedVolume(t.refineTCams, Len(t.refineTCams), SoloSgmMap(t, inMap), normal,
                t.rc, nbDepthsToRefine(rp))

SoloRefinedMap(rp, t, inMap, normal) ==
    IF UseRefineFuse(rp)
    THEN volumeRefineBestDepth(SoloSgmMap(t, inMap), SoloVolume(rp, t, inMap, normal), rp)
    ELSE depthSimMapCopyDepthOnly(SoloSgmMap(t, inMap), PassThroughSim)

SoloOptimizedMap(rp, t, inMap, normal) ==
    IF UseOptimizer(rp)
    THEN depthSimMapOptimizeGradientDescent(SoloSgmMap(t, inMap),
            SoloRefinedMap(rp, t, inMap, normal), t.rc, rp)
    ELSE SoloRefinedMap(rp, t, inMap, normal)

\* the files the call writes, in order, under parameters rp
ExpectedExports(rp) ==
    (IF rp.exportIntermediateDepthSimMaps THEN <<"_sgmUpscaled">> ELSE <<>>)
    \o (IF UseRefineFuse(rp) /\ rp.exportIntermediateCrossVolumes
        THEN <<"volumeCross">> ELSE <<>>)
    \o (IF UseRefineFuse(rp) /\ rp.exportIntermediateVolume9pCsv
        THEN <<"stats9p">> ELSE <<>>)
    \o (IF rp.exportIntermediateDepthSimMaps THEN <<"_refinedFused">> ELSE <<>>)

\* C11: whatever the export flags, when the call has completed the three
\* depth/similarity maps and the volume are the ones the same call gives
\* with every export flag unset; and with every flag unset nothing is
\* exported and the host never waits for a copy to the host.
C11_ExportSideEffectFree ==
    \A e \in Engines :
        LET rp == engine[e].refineParams
            rp0 == WithoutExports(rp)
            t == engine[e].tile
            inMap == engine[e].in_sgmDepthSimMap_dmp
        IN  /\ (engine[e].pc = "done" /\ stream[e] = <<>>) =>
                  /\ sgmDepthPixSizeMap_dmp[e] = SoloSgmMap(t, inMap)
                  /\ refinedDepthSimMap_dmp[e]
                        = SoloRefinedMap(rp0, t, inMap, NormalMapArg(e))
                  /\ optimizedDepthSimMap_dmp[e]
                        = SoloOptimizedMap(rp0, t, inMap, NormalMapArg(e))
                  /\ UseRefineFuse(rp) =>
                        volumeRefineSim_dmp[e] = SoloVolume(rp0, t, inMap, NormalMapArg(e))
                  /\ history[e].exports = ExpectedExports(rp)
            /\ rp = rp0 => history[e].exports = <<>> /\ history[e].nbHostBlocks = 0

C11_Witness ==
    \E e \in Engines :
        /\ engine[e].pc = "done" /\ stream[e] = <<>>
        /\ engine[e].refineParams.useRefineFuse
        /\ Len(history[e].exports) = 4
        /\ history[e].nbHostBlocks = 3
        /\ \E p \in Pixels : optimizedDepthSimMap_dmp[e][p].depth > 0

(***************************************************************************)
(* Masked pixels.                                                          *)
(***************************************************************************)
\* pixel p of the call of e is masked in the coarse map
Masked(e, p) == ~Valid(engine[e].in_sgmDepthSimMap_dmp[(p + 1) \div 2])

NoData(map, p) == map[p] = Sentinel

RECURSIVE AccumulatedFromZero(_, _, _, _, _, _, _)
AccumulatedFromZero(tcams, k, rcCam, p, depth, z, normal) ==
    IF k = 0 THEN 0
    ELSE FAdd(AccumulatedFromZero(tcams, k - 1, rcCam, p, depth, z, normal),
              Similarity(rcCam, tcams[k], p, depth, z, normal))

\* volumeRefineBestDepth is the next operation the device runs for e
BestDepthIsNext(e) ==
    stream[e] # <<>> /\ Head(stream[e]).op = "volumeRefineBestDepth"

\* C13: when the extraction of the best depth runs, in the first call as in
\* every later one, one similarity kernel has run per entry of refineTCams
\* since the volume was set to zero, and every voxel of a valid pixel is the
\* sum from zero of the contributions of these cameras, every voxel of a
\* masked pixel zero.
C13_VolumeSumFromZero ==
    \A e \in Engines :
        BestDepthIsNext(e) =>
            LET tcams == engine[e].tile.refineTCams
                sgmMap == sgmDepthPixSizeMap_dmp[e]
            IN  /\ Count(history[e].executed, "volumeInitialize") = 1
                /\ Count(history[e].executed, "volumeRefineSimilarity") = Len(tcams)
                /\ \A p \in Pixels :
                      /\ DOMAIN volumeRefineSim_dmp[e][p]
                            = 0..(2 * engine[e].refineParams.halfNbDepths)
                      /\ \A z \in DOMAIN volumeRefineSim_dmp[e][p] :
                            volumeRefineSim_dmp[e][p][z] =
                               IF Valid(sgmMap[p])
                               THEN AccumulatedFromZero(tcams, Len(tcams),
                                       engine[e].tile.rc, p, sgmMap[p].depth, z,
                                       NormalMapArg(e))
                               ELSE 0

C13_Witness ==
    \E e \in Engines :
        /\ BestDepthIsNext(e)
        /\ engine[e].nbCalls >= 1
        /\ engine[e].tile.refineTCams = <<>>
        /\ \E p \in Pixels : Valid(sgmDepthPixSizeMap_dmp[e][p])

(***************************************************************************)
(* The downscaled ROI of the phases.                                       *)
(***************************************************************************)
\* the operations that take the downscaled ROI, by the function that
\* launches them
UpscaleRoiOps ==
    {"depthSimMapUpscaleAndFilter", "depthSimMapComputePixSize", "normalMapUpscale"}

VolumeRoiOps == {"volumeRefineSimilarity", "volumeRefineBestDepth"}

OptimizeRoiOps == {"depthSimMapOptimizeGradientDescent"}

RoiOps == UpscaleRoiOps \cup VolumeRoiOps \cup OptimizeRoiOps

\* C14: in a call, the operations of the upscale phase, of the volume build
\* and best-depth extraction, and of the optimizer are all issued with the
\* ROI of the tile downscaled by scale * stepXY.
C14_SameDownscaledRoi ==
    \A e \in Engines :
        LET rp == engine[e].refineParams
            roi == downscaleROI(engine[e].tile.roi, rp.scale * rp.stepXY)
        IN  /\ \A i \in 1..Len(history[e].issued) :
                  history[e].issued[i] \in RoiOps => history[e].rois[i] = roi
            /\ \A i, j \in 1..Len(history[e].issued) :
                  (history[e].issued[i] \in RoiOps /\ history[e].issued[j] \in RoiOps) =>
                     history[e].rois[i] = history[e].rois[j]

C14_Witness ==
    \E e \in Engines :
        /\ \E i \in 1..Len(history[e].issued) : history[e].issued[i] \in UpscaleRoiOps
        /\ \E i \in 1..Len(history[e].issued) : history[e].issued[i] \in VolumeRoiOps
        /\ \E i \in 1..Len(history[e].issued) : history[e].issued[i] \in OptimizeRoiOps
        /\ engine[e].tile.roi[1] % 2 = 1
        /\ RoiWidth(engine[e].tile.roi) >= 3
        /\ downscaleROI(engine[e].tile.roi, engine[e].refineParams.scale)
              # downscaleROI(engine[e].tile.roi,
                             engine[e].refineParams.scale * engine[e].refineParams.stepXY)

(***************************************************************************)
(* The downscaled ROI and the buffers.                                     *)
(***************************************************************************)
\* C16: for a tile whose ROI is at most bufferWidth x bufferHeight, whatever
\* its begin offsets, every operation that takes the downscaled ROI is issued
\* with a ROI no wider and no higher than the depth/similarity maps and the
\* volume allocated by the constructor.
C16_DownscaledRoiFitsBuffers ==
    \A e \in Engines :
        RoiFits(engine[e].tile.roi, engine[e].tileParams) =>
            \A i \in 1..Len(history[e].issued) :
                history[e].issued[i] \in RoiOps =>
                    \A b \in {"sgmDepthPixSizeMap", "refinedDepthSimMap",
                              "optimizedDepthSimMap", "volumeRefineSim"} :
                        /\ RoiWidth(history[e].rois[i]) <= dmpSize[e][b][1]
                        /\ RoiHeight(history[e].rois[i]) <= dmpSize[e][b][2]

C16_Witness ==
    \E e \in Engines :
        /\ engine[e].pc = "done"
        /\ engine[e].tile.roi[1] % 2 = 1 /\ engine[e].tile.roi[3] % 2 = 1
        /\ RoiWidth(engine[e].tile.roi) = engine[e].tileParams.bufferWidth
        /\ RoiHeight(engine[e].tile.roi) = engine[e].tileParams.bufferHeight
        /\ engine[e].tileParams.bufferWidth % 2 = 1
        /\ \E i \in 1..Len(history[e].issued) :
              /\ history[e].issued[i] \in OptimizeRoiOps
              /\ RoiWidth(history[e].rois[i]) = dmpSize[e]["sgmDepthPixSizeMap"][1]

(***************************************************************************)
(* The normal map given to the similarity kernel.                          *)
(***************************************************************************)
\* C15: with useNormalMap set, a similarity kernel that has run in the call
\* in progress was given the normal map upscaled in this call from the input
\* of the call, or no normal map when the input is empty.
C15_NormalMapOfOwnTile ==
    \A e \in Engines :
        (/\ engine[e].refineParams.useNormalMap
         /\ engine[e].pc # "idle"
         /\ Ran(e, "volumeRefineSimilarity")) =>
            IF engine[e].in_sgmNormalMap_dmp = NullNormalMap
            THEN NormalMapArg(e) = NullNormalMap
            ELSE /\ history[e].normalFrom = engine[e].nbCalls + 1
                 /\ NormalMapArg(e) = engine[e].in_sgmNormalMap_dmp
=============================================================================
